---- MODULE Spec2Model ----
(***************************************************************************)
(* The CPU search core of src/src/search.cpp: GreedySearch_Cpu with its     *)
(* samplers, SpeculativeGreedySearch_Cpu::CheckCandidates, the logits       *)
(* shaping of Search_Cpu, the EOS bookkeeping (eos_seen_, not_done_count_,  *)
(* done_) they share, and BeamSearch_Cpu with its scorer.                   *)
(*                                                                         *)
(* Batch rows, token ids and logit positions are numbered from 0 as in the  *)
(* source; a row's history is a sequence whose k-th element is the token    *)
(* at position k-1.                                                        *)
(*                                                                         *)
(* Every operation is an operator from a search object (a record of the     *)
(* fields) to the search object after the call; the actions apply the       *)
(* operators to the variables.                                              *)
(***************************************************************************)
EXTENDS Integers, Sequences, FiniteSets, TLC

VARIABLES
  params,                \* GeneratorParams, immutable after construction
  sequences_,            \* Sequences: row -> the tokens at positions [0, length)
  current_length_,       \* Sequences: the current length
  next_tokens_,          \* row -> token written by the last selection
  eos_seen_,             \* row -> BOOLEAN
  not_done_count_,       \* rows that have not emitted EOS
  done_,
  next_token_scores_,    \* the span SetLogits stored: a sequence of score rows
  gen_,                  \* the state of the random generator
  next_accepted_tokens_, \* the view CheckCandidates returned
  call,                  \* observation: the last call, its arguments and what it read
  run2,                  \* a second search object (used by the two-run specification)
  finalized_,            \* BeamSearch_Cpu: whether Finalize has run
  beam_scorer_           \* BeamSearch_Cpu: the beam scorer (used by the beam specification)

vars == <<params, sequences_, current_length_, next_tokens_, eos_seen_,
          not_done_count_, done_, next_token_scores_, gen_,
          next_accepted_tokens_, call, run2, finalized_, beam_scorer_>>

\* The members only a BeamSearch_Cpu has
beam_vars == <<finalized_, beam_scorer_>>

-----------------------------------------------------------------------------
(* Bounds of the model *)

MaxBatch == 2          \* batch_size ranges over 1..MaxBatch
MaxLength == 3         \* params.search.max_length
MaxCandidates == 2     \* candidate_length ranges over 0..MaxCandidates
MaxTokensPerCall == 1  \* tokens per row handed to SetNextTokens
MaxDrop == 2           \* num_tokens handed to DropLastTokens
MaxPromptLength == 1   \* length of params.input_ids per row
RngMod == 2            \* number of generator states
MaxDebt == 0           \* the calls stop once not_done_count_ is below -MaxDebt
MaxPairCandidates == 1 \* candidate_length in the two-run specification

(* Shape of the vocabulary *)
VocabSize == 2

Tokens == 0 .. (VocabSize - 1)

-----------------------------------------------------------------------------
(* Scores.  A finite score is an integer, in units of ln 2 so that the     *)
(* exponential of a score is a power of two.  Two values are not finite.   *)

\* -infinity, the mask sentinel of the logits buffer
NegInf == -1000
\* std::numeric_limits<float>::lowest(), the most negative finite float
Lowest == -999

IsFinite(x) == x > Lowest

Rows(p) == 0 .. (p.batch_size - 1)

\* params.search.num_beams: 1 unless the params are those of a beam search
NumBeams(p) == IF "num_beams" \in DOMAIN p THEN p.num_beams ELSE 1

BatchBeamSize(p) == p.batch_size * NumBeams(p)

\* The finite scores a model hands to SetLogits
FiniteLogits == {0, 2}

\* The score rows over a set of values, as SetLogits receives them (NaN is
\* forbidden, so some score of a row is finite).  A row carries, beside its
\* scores, whether SoftMax has replaced them by probabilities and whether a
\* repetition penalty has rescaled them.
LogitRows(values) ==
  { [at |-> a, softmaxed |-> FALSE, penalised |-> FALSE] :
      a \in { f \in [Tokens -> values] : \E t \in Tokens : IsFinite(f[t]) } }

NumRows(scores) == Cardinality(DOMAIN scores)

RECURSIVE SumTo(_, _)
SumTo(f, n) == IF n < 0 THEN 0 ELSE f[n] + SumTo(f, n - 1)

RECURSIVE Pow2(_)
Pow2(n) == IF n <= 0 THEN 1 ELSE 2 * Pow2(n - 1)

RECURSIVE Gcd(_, _)
Gcd(a, b) == IF b = 0 THEN a ELSE Gcd(b, a % b)

RECURSIVE LcmOf(_)
LcmOf(S) ==
  IF S = {} THEN 1
  ELSE LET x == CHOOSE y \in S : TRUE
           r == LcmOf(S \ {x})
       IN (x * r) \div Gcd(x, r)

MaxOf(S) == CHOOSE x \in S : \A y \in S : y <= x
MinOf(S) == CHOOSE x \in S : \A y \in S : x <= y

\* The last position holding the maximum
ArgMaxLast(at) ==
  CHOOSE t \in Tokens :
    /\ \A u \in Tokens : at[u] <= at[t]
    /\ \A u \in Tokens : at[u] = at[t] => u <= t

\* std::max_element over a row: the first position holding the maximum
ArgMax(at) ==
  CHOOSE t \in Tokens :
    /\ \A u \in Tokens : at[u] <= at[t]
    /\ \A u \in Tokens : at[u] = at[t] => t <= u

\* The set of token ids in a history
TokensIn(seq) == { seq[k] : k \in 1 .. Len(seq) }

\* Number of occurrences of a token in a sequence
RECURSIVE Occurrences(_, _)
Occurrences(seq, tok) ==
  IF seq = <<>> THEN 0
  ELSE (IF Head(seq) = tok THEN 1 ELSE 0) + Occurrences(Tail(seq), tok)

-----------------------------------------------------------------------------
(* The search object as a record of its fields *)

Cur ==
  [ params |-> params,
    sequences_ |-> sequences_,
    current_length_ |-> current_length_,
    next_tokens_ |-> next_tokens_,
    eos_seen_ |-> eos_seen_,
    not_done_count_ |-> not_done_count_,
    done_ |-> done_,
    next_token_scores_ |-> next_token_scores_,
    gen_ |-> gen_,
    next_accepted_tokens_ |-> next_accepted_tokens_ ]

Install(s) ==
  /\ params' = s.params
  /\ sequences_' = s.sequences_
  /\ current_length_' = s.current_length_
  /\ next_tokens_' = s.next_tokens_
  /\ eos_seen_' = s.eos_seen_
  /\ not_done_count_' = s.not_done_count_
  /\ done_' = s.done_
  /\ next_token_scores_' = s.next_token_scores_
  /\ gen_' = s.gen_
  /\ next_accepted_tokens_' = s.next_accepted_tokens_

-----------------------------------------------------------------------------
(* Sequences (sequences.h): the token history store, as section 4.1 of the  *)
(* specification describes it.                                              *)

\* append(next_tokens): write next_tokens[r] at position length of every row,
\* then length + 1; at length = max_length the store is out of space and is
\* left as it is (OutOfSpace is a normal termination, not an error).
SequencesAppend(s, tokens) ==
  IF s.current_length_ >= s.params.max_length
  THEN s
  ELSE [s EXCEPT !.sequences_ = [r \in Rows(s.params) |-> Append(s.sequences_[r], tokens[r])],
                 !.current_length_ = @ + 1]

\* drop_last(n): length <- length - n
SequencesDropLast(s, n) ==
  LET len == s.current_length_ - n
  IN [s EXCEPT !.sequences_ = [r \in Rows(s.params) |->
                                 IF len <= 0 THEN <<>> ELSE SubSeq(s.sequences_[r], 1, len)],
               !.current_length_ = len]

-----------------------------------------------------------------------------
(* GreedySearch_Cpu: EOS bookkeeping *)

\* PadIfAlreadyEOS returns whether the row has seen EOS ...
AlreadyEOS(s, batch_id) == s.eos_seen_[batch_id]

\* ... and writes the pad token when it has
PadIfAlreadyEOS(s, batch_id) ==
  IF ~AlreadyEOS(s, batch_id) THEN s
  ELSE [s EXCEPT !.next_tokens_[batch_id] = s.params.pad_token_id]

SetNextToken(s, batch_id, token) ==
  LET w == [s EXCEPT !.next_tokens_[batch_id] = token]
  IN IF token = s.params.eos_token_id
     THEN [w EXCEPT !.eos_seen_[batch_id] = TRUE,
                    !.not_done_count_ = @ - 1,
                    !.done_ = IF s.not_done_count_ - 1 = 0 THEN TRUE ELSE @]
     ELSE w

\* An append that does not look at the length it reaches
AppendWithoutLengthStop(s) == SequencesAppend(s, s.next_tokens_)

AppendNextTokensToSequences(s) ==
  LET a == SequencesAppend(s, s.next_tokens_)
  IN IF a.current_length_ = a.params.max_length
     THEN [a EXCEPT !.done_ = TRUE]
     ELSE a

-----------------------------------------------------------------------------
(* Logits shaping *)

SetLogits(s, logits) == [s EXCEPT !.next_token_scores_ = logits]

\* scores[eos_token_id] = lowest() in one row of the buffer
MaskEos(s, row) ==
  [s EXCEPT !.next_token_scores_[row].at[s.params.eos_token_id] = Lowest]

RECURSIVE MaskEosFrom(_, _)
MaskEosFrom(s, i) ==
  IF i >= BatchBeamSize(s.params) THEN s
  ELSE MaskEosFrom(MaskEos(s, i), i + 1)

\* Search_Cpu::ApplyMinLength
ApplyMinLength(s, min_length) ==
  IF s.current_length_ >= min_length THEN s
  ELSE MaskEosFrom(s, 0)

\* SpeculativeGreedySearch_Cpu::ApplyMinLength
SpeculativeApplyMinLength(s, min_length, token_idx) ==
  IF s.current_length_ >= min_length THEN s
  ELSE MaskEos(s, token_idx)

\* score < 0 ? score * penalty : score / penalty, in float arithmetic:
\* -infinity stays, and lowest() times a penalty above 1 overflows to -infinity
Rescale(score, penalty) ==
  IF score < 0
  THEN IF ~IsFinite(score) THEN (IF penalty > 1 THEN NegInf ELSE score)
       ELSE score * penalty
  ELSE score \div penalty

\* The rescaling of the scores of the ids in unique_word_ids, in one row
PenaliseRow(s, row, unique_word_ids, penalty) ==
  [s EXCEPT !.next_token_scores_[row] =
     [@ EXCEPT !.at = [t \in Tokens |->
                         IF t \in unique_word_ids THEN Rescale(@[t], penalty) ELSE @[t]],
               !.penalised = TRUE]]

\* A penalty that takes every row's ids from the history of row 0
IdsOfRowZero(s, i, oob) == TokensIn(s.sequences_[0])

\* sequences_.GetSequence(i) as a set of ids: the row's history when the store
\* has a row i, else whatever lies behind the store (oob)
SequenceIds(s, i, oob) ==
  IF i \in Rows(s.params) THEN TokensIn(s.sequences_[i]) ELSE oob

RECURSIVE PenaliseFrom(_, _, _)
PenaliseFrom(s, penalty, i) ==
  IF i >= BatchBeamSize(s.params) THEN s
  ELSE PenaliseFrom(PenaliseRow(s, i, SequenceIds(s, i, {}), penalty), penalty, i + 1)

\* Search_Cpu::ApplyRepetitionPenalty
ApplyRepetitionPenalty(s, penalty) ==
  IF penalty = 1 THEN s
  ELSE PenaliseFrom(s, penalty, 0)

\* The row of the history the speculative penalty reads at a logit position
PenaltySequenceRow(token_idx) == token_idx

\* SpeculativeGreedySearch_Cpu::ApplyRepetitionPenalty
SpeculativeApplyRepetitionPenalty(s, penalty, token_idx, oob) ==
  IF penalty = 1 THEN s
  ELSE PenaliseRow(s, token_idx, SequenceIds(s, PenaltySequenceRow(token_idx), oob), penalty)

-----------------------------------------------------------------------------
(* SoftMax (softmax.h), as section 4.3 of the specification describes it:   *)
(* the numerically stable form, which subtracts the row maximum before      *)
(* exponentiation.  A probability is an integer number of 1/ProbUnit.       *)

\* exp of a score relative to the smallest finite score of the row; the
\* exponential of lowest() minus a finite maximum underflows to 0
SoftMaxWeights(at) ==
  LET m == MaxOf({ at[t] : t \in Tokens })
      lo == MinOf({ x \in { at[t] : t \in Tokens } : IsFinite(x) })
  IN [t \in Tokens |->
        IF IsFinite(m)
        THEN (IF IsFinite(at[t]) THEN Pow2(at[t] - lo) ELSE 0)
        ELSE (IF at[t] = m THEN 1 ELSE 0)]

\* The sums of weights a row can have
WeightSums ==
  LET W == {0} \cup { Pow2(x - MinOf(FiniteLogits)) : x \in MinOf(FiniteLogits) .. MaxOf(FiniteLogits) }
  IN { SumTo(w, VocabSize - 1) : w \in [Tokens -> W] } \ {0}

ProbUnit == LcmOf(WeightSums)

SoftMax(at, temperature) ==
  LET w == SoftMaxWeights(at)
      total == SumTo(w, VocabSize - 1)
  IN [t \in Tokens |-> (w[t] * ProbUnit) \div total]

\* Rows the model takes the softmax of: logits with a maximum above -infinity
\* (else the result is NaN), not yet replaced by their probabilities
CanSoftMax(row) ==
  /\ ~row.softmaxed
  /\ \E t \in Tokens : row.at[t] > NegInf

SoftMaxRow(s, batch_id, temperature) ==
  [s EXCEPT !.next_token_scores_[batch_id] =
     [@ EXCEPT !.at = SoftMax(@, temperature), !.softmaxed = TRUE]]

-----------------------------------------------------------------------------
(* The random generator gen_ (std::mt19937): a state, an output that is a   *)
(* function of the state, and a successor state.                            *)

RngOutput(g) == g
RngAdvance(g) == (g + 1) % RngMod

\* 2^32 modulo RngMod
RECURSIVE Pow2Mod(_, _)
Pow2Mod(n, m) == IF n = 0 THEN 1 % m ELSE (2 * Pow2Mod(n - 1, m)) % m

\* gen_.seed(value): the value is converted to the generator's unsigned 32-bit
\* result_type, so -2 seeds as 2^32 - 2
Seeded(value) ==
  IF value >= 0 THEN value % RngMod
  ELSE ((value % RngMod) + Pow2Mod(32, RngMod)) % RngMod

\* std::uniform_real_distribution<float>(0, p)(gen_), in units of 1/ProbUnit
UniformReal(g, p) == (RngOutput(g) * p) \div RngMod

\* std::discrete_distribution over weights[0 .. k-1], whose sum is positive:
\* the first index at which the cumulative weight exceeds the drawn point
Discrete(weights, k, g) ==
  LET x == (RngOutput(g) * SumTo(weights, k - 1)) \div RngMod
  IN MinOf({ i \in 0 .. (k - 1) : SumTo(weights, i) > x })

\* a before b in a sort by ascending score
BeforeAscending(at, a, b) == at[a] < at[b] \/ (at[a] = at[b] /\ a < b)

\* a before b in a sort by descending score (ties: the lower index first)
Before(at, a, b) == at[a] > at[b] \/ (at[a] = at[b] /\ a < b)

\* indices sorted by descending score: indices[i] is at SortDesc(at)[i + 1]
SortDesc(at) ==
  [i \in 1 .. VocabSize |->
     CHOOSE t \in Tokens : Cardinality({ u \in Tokens : Before(at, u, t) }) = i - 1]

\* The walk of SampleTopP and SampleTopKTopP over the first n sorted indices:
\* threshold -= scores[indices[i]] until it is not above 0
RECURSIVE Walk(_, _, _, _, _, _)
Walk(at, indices, n, i, threshold, default) ==
  IF i >= n THEN default
  ELSE LET rest == threshold - at[indices[i + 1]]
       IN IF rest > 0 THEN Walk(at, indices, n, i + 1, rest, default)
          ELSE indices[i + 1]

-----------------------------------------------------------------------------
(* GreedySearch_Cpu: selection *)

RECURSIVE SelectTopFrom(_, _)
SelectTopFrom(s, batch_id) ==
  IF batch_id >= s.params.batch_size THEN s
  ELSE SelectTopFrom(
         IF AlreadyEOS(s, batch_id) THEN PadIfAlreadyEOS(s, batch_id)
         ELSE SetNextToken(s, batch_id, ArgMax(s.next_token_scores_[batch_id].at)),
         batch_id + 1)

SelectTop(s) == AppendNextTokensToSequences(SelectTopFrom(s, 0))

\* The weights SampleTopK hands to std::discrete_distribution:
\* scores.begin() .. scores.begin() + k
TopKWeights(probs, indices, k) == [i \in 0 .. (k - 1) |-> probs[i]]

\* One row of SampleTopK.  With weights that sum to 0 the distribution's
\* precondition fails and any of the k indices may come out (pick).
SampleTopKRow(s, batch_id, k, temperature, pick) ==
  LET sm == SoftMaxRow(s, batch_id, temperature)
      probs == sm.next_token_scores_[batch_id].at
      indices == SortDesc(probs)
      weights == TopKWeights(probs, indices, k)
      drawn == IF SumTo(weights, k - 1) = 0 THEN pick[batch_id]
               ELSE Discrete(weights, k, s.gen_)
  IN SetNextToken([sm EXCEPT !.gen_ = RngAdvance(@)], batch_id, indices[drawn + 1])

RECURSIVE SampleTopKFrom(_, _, _, _, _)
SampleTopKFrom(s, batch_id, k, temperature, pick) ==
  IF batch_id >= s.params.batch_size THEN s
  ELSE SampleTopKFrom(SampleTopKRow(s, batch_id, k, temperature, pick),
                      batch_id + 1, k, temperature, pick)

SampleTopK(s, k, temperature, pick) ==
  AppendNextTokensToSequences(SampleTopKFrom(s, 0, k, temperature, pick))

\* One row of SampleTopP (past PadIfAlreadyEOS)
SampleTopPRow(s, batch_id, p, temperature) ==
  LET sm == SoftMaxRow(s, batch_id, temperature)
      probs == sm.next_token_scores_[batch_id].at
      indices == SortDesc(probs)
      threshold == UniformReal(s.gen_, p)
      token == Walk(probs, indices, VocabSize, 0, threshold, 0)
  IN SetNextToken([sm EXCEPT !.gen_ = RngAdvance(@)], batch_id, token)

RECURSIVE SampleTopPFrom(_, _, _, _)
SampleTopPFrom(s, batch_id, p, temperature) ==
  IF batch_id >= s.params.batch_size THEN s
  ELSE SampleTopPFrom(
         IF AlreadyEOS(s, batch_id) THEN PadIfAlreadyEOS(s, batch_id)
         ELSE SampleTopPRow(s, batch_id, p, temperature),
         batch_id + 1, p, temperature)

SampleTopP(s, p, temperature) ==
  AppendNextTokensToSequences(SampleTopPFrom(s, 0, p, temperature))

\* One row of SampleTopKTopP (past PadIfAlreadyEOS)
SampleTopKTopPRow(s, batch_id, k, p, temperature) ==
  LET sm == SoftMaxRow(s, batch_id, temperature)
      probs == sm.next_token_scores_[batch_id].at
      indices == SortDesc(probs)
      threshold == UniformReal(s.gen_, p)
      token == Walk(probs, indices, k, 0, threshold, indices[k])
  IN SetNextToken([sm EXCEPT !.gen_ = RngAdvance(@)], batch_id, token)

RECURSIVE SampleTopKTopPFrom(_, _, _, _, _)
SampleTopKTopPFrom(s, batch_id, k, p, temperature) ==
  IF batch_id >= s.params.batch_size THEN s
  ELSE SampleTopKTopPFrom(
         IF AlreadyEOS(s, batch_id) THEN PadIfAlreadyEOS(s, batch_id)
         ELSE SampleTopKTopPRow(s, batch_id, k, p, temperature),
         batch_id + 1, k, p, temperature)

SampleTopKTopP(s, k, p, temperature) ==
  AppendNextTokensToSequences(SampleTopKTopPFrom(s, 0, k, p, temperature))

\* The rows a sampler takes the softmax of
SoftMaxedRows(s, skips_eos) ==
  { r \in Rows(s.params) : ~(skips_eos /\ s.eos_seen_[r]) }

-----------------------------------------------------------------------------
(* GreedySearch_Cpu: SetNextTokens and DropLastTokens *)

\* next_tokens_cpu[i * tokens_count_per_batch + j]; tokens[i] is row i's part
NextTokenAt(tokens, i, j) == tokens[i][j + 1]

RECURSIVE SetNextTokensRow(_, _, _, _)
SetNextTokensRow(s, tokens, j, i) ==
  IF i >= s.params.batch_size THEN s
  ELSE SetNextTokensRow(SetNextToken(s, i, NextTokenAt(tokens, i, j)), tokens, j, i + 1)

RECURSIVE SetNextTokensFrom(_, _, _, _)
SetNextTokensFrom(s, tokens, tokens_count_per_batch, j) ==
  IF j >= tokens_count_per_batch THEN s
  ELSE SetNextTokensFrom(
         AppendNextTokensToSequences(SetNextTokensRow(s, tokens, j, 0)),
         tokens, tokens_count_per_batch, j + 1)

SetNextTokens(s, tokens, tokens_count_per_batch) ==
  SetNextTokensFrom(s, tokens, tokens_count_per_batch, 0)

\* The num_tokens tokens DropLastTokens reads for row i, from position
\* length - num_tokens on.  With num_tokens above the length the first of them
\* lie before the row (before[i]).
DroppedSuffix(s, i, num_tokens, before) ==
  IF num_tokens <= s.current_length_
  THEN SubSeq(s.sequences_[i], s.current_length_ - num_tokens + 1, s.current_length_)
  ELSE before[i] \o s.sequences_[i]

\* What one occurrence of EOS in the dropped suffix of a row does, count times
RevertEOS(s, i, count) ==
  IF count = 0 THEN s
  ELSE [s EXCEPT !.not_done_count_ = @ + count,
                 !.done_ = FALSE,
                 !.eos_seen_[i] = FALSE]

RECURSIVE DropLastTokensFrom(_, _, _, _, _)
DropLastTokensFrom(s, seqs, i, num_tokens, before) ==
  IF i >= s.params.batch_size THEN s
  ELSE DropLastTokensFrom(
         IF ~s.eos_seen_[i] THEN s
         ELSE RevertEOS(s, i, Occurrences(DroppedSuffix(seqs, i, num_tokens, before),
                                          s.params.eos_token_id)),
         seqs, i + 1, num_tokens, before)

DropLastTokens(s, num_tokens, before) ==
  SequencesDropLast(DropLastTokensFrom(s, s, 0, num_tokens, before), num_tokens)

-----------------------------------------------------------------------------
(* SpeculativeGreedySearch_Cpu::CheckCandidates.  The caller's sequence is   *)
(* given by its two parts: the length before the candidates                 *)
(* (prev_sequence_length) and the candidate tokens (draft).                 *)

\* A guard that lets every batch of at least one row through
ThrowsOnlyOnEmptyBatch(s) == s.params.batch_size < 1

CheckCandidatesThrows(s) == s.params.batch_size # 1

\* The test that ends the loop, after the token of a position was appended
LoopBreaks(done, logit_index, draft, token) ==
  \/ done
  \/ logit_index = Len(draft)
  \/ draft[logit_index + 1] # token

\* The positions of the draft that test reads
DraftReads(done, logit_index, draft) ==
  IF done \/ logit_index = Len(draft) THEN {} ELSE {logit_index}

\* A view that leaves out the token of the position the loop ended at
AcceptedWithoutLast(logit_index) == logit_index

\* The number of tokens of the returned view
AcceptedCount(logit_index) == logit_index + 1

\* The loop from logit_index on.  Yields the search object after the loop, the
\* position at which the loop ended, and what the loop read on its way: the
\* ids each penalty rescaled (ids) and the draft positions compared (reads).
RECURSIVE CheckCandidatesFrom(_, _, _, _, _, _)
CheckCandidatesFrom(s, draft, logit_index, oob, ids, reads) ==
  LET masked == SpeculativeApplyMinLength(s, s.params.min_length, logit_index)
      shaped == SpeculativeApplyRepetitionPenalty(
                  masked, s.params.repetition_penalty, logit_index, oob[logit_index])
      token == ArgMax(shaped.next_token_scores_[logit_index].at)
      after == AppendNextTokensToSequences(SetNextToken(shaped, 0, token))
      ids1 == IF s.params.repetition_penalty = 1 THEN ids
              ELSE Append(ids, SequenceIds(s, PenaltySequenceRow(logit_index), oob[logit_index]))
      reads1 == reads \cup DraftReads(after.done_, logit_index, draft)
  IN IF LoopBreaks(after.done_, logit_index, draft, token)
     THEN [s |-> after, logit_index |-> logit_index, ids |-> ids1, reads |-> reads1]
     ELSE CheckCandidatesFrom(after, draft, logit_index + 1, oob, ids1, reads1)

CheckCandidatesRun(s, draft, oob) == CheckCandidatesFrom(s, draft, 0, oob, <<>>, {})

CheckCandidates(s, prev_sequence_length, draft, oob) ==
  IF CheckCandidatesThrows(s) THEN s
  ELSE LET run == CheckCandidatesRun(s, draft, oob)
       IN [run.s EXCEPT !.next_accepted_tokens_ =
             [start |-> prev_sequence_length, count |-> AcceptedCount(run.logit_index)]]

\* The tokens a view of row 0 shows, as far as they lie inside the history
ViewTokens(s, view) ==
  LET last == IF view.start + view.count <= s.current_length_
              THEN view.start + view.count ELSE s.current_length_
  IN SubSeq(s.sequences_[0], view.start + 1, last)

\* SpeculativeGreedySearch_Cpu::GetNextTokens
GetNextAcceptedTokens(s) == ViewTokens(s, s.next_accepted_tokens_)

-----------------------------------------------------------------------------
(* Construction *)

\* GreedySearch_Cpu::GreedySearch_Cpu: whether gen_ is seeded from the seed
SeedsFromParams(random_seed) == random_seed # -1

\* The generator states construction can leave
SeededStates(random_seed) ==
  IF SeedsFromParams(random_seed) THEN {Seeded(random_seed)}
  ELSE 0 .. (RngMod - 1)

\* The search object after construction from params, with gen_ = g
Constructed(p, g) ==
  [ params |-> p,
    sequences_ |-> p.input_ids,
    current_length_ |-> Len(p.input_ids[0]),
    next_tokens_ |-> [r \in Rows(p) |-> 0],
    eos_seen_ |-> [r \in Rows(p) |-> FALSE],
    not_done_count_ |-> p.batch_size,
    done_ |-> FALSE,
    next_token_scores_ |-> <<>>,
    gen_ |-> g,
    next_accepted_tokens_ |-> [start |-> 0, count |-> 0] ]

\* GeneratorParams with the given settings
Params(batch_size, min_length, eos, pad, penalty, seed, input_ids) ==
  [ batch_size |-> batch_size,
    vocab_size |-> VocabSize,
    max_length |-> MaxLength,
    min_length |-> min_length,
    eos_token_id |-> eos,
    pad_token_id |-> pad,
    repetition_penalty |-> penalty,
    random_seed |-> seed,
    input_ids |-> input_ids ]

\* The prompts of a batch: every row has the same length
Prompts(batch_size) ==
  UNION { [0 .. (batch_size - 1) -> [1 .. n -> Tokens]] : n \in 0 .. MaxPromptLength }

NoCall == [op |-> "constructed"]

\* A search that is not a beam search has no scorer
NoBeam == finalized_ = FALSE /\ beam_scorer_ = NoCall

\* The variables hold the search object s
Holds(s) ==
  /\ params = s.params
  /\ sequences_ = s.sequences_
  /\ current_length_ = s.current_length_
  /\ next_tokens_ = s.next_tokens_
  /\ eos_seen_ = s.eos_seen_
  /\ not_done_count_ = s.not_done_count_
  /\ done_ = s.done_
  /\ next_token_scores_ = s.next_token_scores_
  /\ gen_ = s.gen_
  /\ next_accepted_tokens_ = s.next_accepted_tokens_

InitWith(P) ==
  /\ \E p \in P : \E g \in SeededStates(p.random_seed) : Holds(Constructed(p, g))
  /\ call = NoCall
  /\ run2 = NoCall
  /\ NoBeam

-----------------------------------------------------------------------------
(* The calls.  A call is made on a search object whose length is in range   *)
(* (with a negative length every view of a row lies outside the store, and  *)
(* the model follows the program no further) and whose scores buffer has     *)
(* the rows the call reads.                                                 *)

Usable(s) ==
  /\ s.current_length_ >= 0
  /\ s.not_done_count_ >= 0 - MaxDebt

HasRows(s, n) == NumRows(s.next_token_scores_) >= n

\* The buffers a model hands to SetLogits: batch_size rows, or for a batch of
\* one the rows of 1 .. MaxCandidates + 1 logit positions
LogitsInputs(p, rows) ==
  UNION { [0 .. (n - 1) -> rows] :
            n \in IF p.batch_size = 1 THEN 1 .. (MaxCandidates + 1) ELSE {p.batch_size} }

\* The rows in which one score is above all others
Decided(rows) ==
  { row \in rows : \E t \in Tokens : \A u \in Tokens \ {t} : row.at[u] < row.at[t] }

Temperatures == {1}
TopPValues == {ProbUnit \div 2, ProbUnit}

SetLogitsFrom(rows) ==
  /\ Usable(Cur)
  /\ \E logits \in LogitsInputs(params, rows) : Install(SetLogits(Cur, logits))
  /\ call' = [op |-> "SetLogits"]
  /\ UNCHANGED <<run2, beam_vars>>

\* Finite logits with one score above all others in every row
SetLogitsStep == SetLogitsFrom(Decided(LogitRows(FiniteLogits)))

\* Logits with ties and with masked entries
MaskedLogits == {MaxOf(FiniteLogits), NegInf}

SetMaskedLogitsStep == SetLogitsFrom(LogitRows(MaskedLogits))

ApplyMinLengthStep ==
  /\ Usable(Cur)
  /\ HasRows(Cur, BatchBeamSize(params))
  /\ Install(ApplyMinLength(Cur, params.min_length))
  /\ call' = [op |-> "ApplyMinLength"]
  /\ UNCHANGED <<run2, beam_vars>>

\* A row is rescaled once between two SetLogits, and before any softmax
ApplyRepetitionPenaltyStep ==
  /\ Usable(Cur)
  /\ HasRows(Cur, BatchBeamSize(params))
  /\ params.repetition_penalty # 1 =>
        \A r \in Rows(params) :
          ~next_token_scores_[r].penalised /\ ~next_token_scores_[r].softmaxed
  /\ Install(ApplyRepetitionPenalty(Cur, params.repetition_penalty))
  /\ call' = [op |-> "ApplyRepetitionPenalty"]
  /\ UNCHANGED <<run2, beam_vars>>

SelectTopStep ==
  /\ Usable(Cur)
  /\ HasRows(Cur, params.batch_size)
  /\ Install(SelectTop(Cur))
  /\ call' = [op |-> "SelectTop"]
  /\ UNCHANGED <<run2, beam_vars>>

SampleTopKStep ==
  /\ Usable(Cur)
  /\ HasRows(Cur, params.batch_size)
  /\ \A r \in SoftMaxedRows(Cur, FALSE) : CanSoftMax(next_token_scores_[r])
  /\ \E k \in 1 .. VocabSize : \E temperature \in Temperatures :
       \E pick \in [Rows(params) -> 0 .. (k - 1)] :
         /\ Install(SampleTopK(Cur, k, temperature, pick))
         /\ call' = [op |-> "SampleTopK", k |-> k, temperature |-> temperature]
  /\ UNCHANGED <<run2, beam_vars>>

SampleTopPStep ==
  /\ Usable(Cur)
  /\ HasRows(Cur, params.batch_size)
  /\ \A r \in SoftMaxedRows(Cur, TRUE) : CanSoftMax(next_token_scores_[r])
  /\ \E p \in TopPValues : \E temperature \in Temperatures :
       Install(SampleTopP(Cur, p, temperature))
  /\ call' = [op |-> "SampleTopP"]
  /\ UNCHANGED <<run2, beam_vars>>

SampleTopKTopPStep ==
  /\ Usable(Cur)
  /\ HasRows(Cur, params.batch_size)
  /\ \A r \in SoftMaxedRows(Cur, TRUE) : CanSoftMax(next_token_scores_[r])
  /\ \E k \in 1 .. VocabSize : \E p \in TopPValues : \E temperature \in Temperatures :
       Install(SampleTopKTopP(Cur, k, p, temperature))
  /\ call' = [op |-> "SampleTopKTopP"]
  /\ UNCHANGED <<run2, beam_vars>>

SetNextTokensStep ==
  /\ Usable(Cur)
  /\ \E count \in 0 .. MaxTokensPerCall :
       \E tokens \in [Rows(params) -> [1 .. count -> Tokens]] :
         /\ Install(SetNextTokens(Cur, tokens, count))
         /\ call' = [op |-> "SetNextTokens", count |-> count]
  /\ UNCHANGED <<run2, beam_vars>>

\* What DropLastTokens may find before the rows when num_tokens is above the length
BeforeRows(p, n) == [Rows(p) -> [1 .. (IF n > 0 THEN n ELSE 0) -> Tokens]]

DropLastTokensStep ==
  /\ Usable(Cur)
  /\ \E num_tokens \in 0 .. MaxDrop :
       \E before \in BeforeRows(params, num_tokens - current_length_) :
         /\ Install(DropLastTokens(Cur, num_tokens, before))
         /\ call' = [op |-> "DropLastTokens", num_tokens |-> num_tokens]
  /\ UNCHANGED <<run2, beam_vars>>

\* What the speculative penalty may find in the rows behind the store: one set
\* of ids per logit position that is not a row of the store
BehindStore(p, candidate_length) ==
  IF p.repetition_penalty = 1 THEN {[i \in 0 .. candidate_length |-> {}]}
  ELSE { [i \in 0 .. candidate_length |-> IF i \in Rows(p) THEN {} ELSE f[i]] :
           f \in [0 .. candidate_length -> SUBSET Tokens] }

\* The rows of the scores buffer CheckCandidates may shape: as for
\* ApplyRepetitionPenaltyStep
Shapeable(s, n) ==
  s.params.repetition_penalty # 1 =>
    \A i \in 0 .. (n - 1) :
      ~s.next_token_scores_[i].penalised /\ ~s.next_token_scores_[i].softmaxed

\* The caller hands over its copy of the stored sequence followed by the
\* draft, so prev_sequence_length is the stored length
CheckCandidatesStep ==
  /\ Usable(Cur)
  /\ \E candidate_length \in 0 .. MaxCandidates :
       \E draft \in [1 .. candidate_length -> Tokens] :
         \E oob \in BehindStore(params, candidate_length) :
           /\ CheckCandidatesThrows(Cur)
                \/ (HasRows(Cur, candidate_length + 1) /\ Shapeable(Cur, candidate_length + 1))
           /\ Install(CheckCandidates(Cur, current_length_, draft, oob))
           /\ call' = IF CheckCandidatesThrows(Cur)
                      THEN [op |-> "CheckCandidates", threw |-> TRUE]
                      ELSE [ op |-> "CheckCandidates",
                             threw |-> FALSE,
                             draft |-> draft,
                             ids |-> CheckCandidatesRun(Cur, draft, oob).ids,
                             reads |-> CheckCandidatesRun(Cur, draft, oob).reads ]
  /\ UNCHANGED <<run2, beam_vars>>

-----------------------------------------------------------------------------
(* Greedy decoding with rollback: batches of 1 .. MaxBatch rows, no shaping  *)

GreedyParams ==
  UNION { { Params(b, 0, VocabSize - 1, 0, 1, 0, ids) : ids \in Prompts(b) } :
            b \in 1 .. MaxBatch }

Init == InitWith(GreedyParams)

Next ==
  \/ SetLogitsStep
  \/ SelectTopStep
  \/ SetNextTokensStep
  \/ DropLastTokensStep
  \/ CheckCandidatesStep

Spec == Init /\ [][Next]_vars

-----------------------------------------------------------------------------
(* Sampling without rollback: the samplers beside greedy selection, the     *)
(* generator seeded from the entropy source                                 *)

SamplingParams ==
  UNION { { Params(b, 0, VocabSize - 1, 0, 1, -1, ids) : ids \in Prompts(b) } :
            b \in 1 .. MaxBatch }

InitSampling == InitWith(SamplingParams)

NextSampling ==
  \/ SetLogitsStep
  \/ SelectTopStep
  \/ SampleTopKStep
  \/ SampleTopPStep
  \/ SampleTopKTopPStep
  \/ SetNextTokensStep
  \/ CheckCandidatesStep

SpecSampling == InitSampling /\ [][NextSampling]_vars

-----------------------------------------------------------------------------
(* Speculative decoding with shaping: one row, a minimum length, a          *)
(* repetition penalty, logits with ties and masked entries                  *)

SpeculativeMinLength == 2
SpeculativePenalty == 2

SpeculativeParams ==
  { Params(1, SpeculativeMinLength, VocabSize - 1, 0, SpeculativePenalty, 0, ids) :
      ids \in Prompts(1) }

InitSpeculative == InitWith(SpeculativeParams)

NextSpeculative ==
  \/ SetMaskedLogitsStep
  \/ ApplyMinLengthStep
  \/ ApplyRepetitionPenaltyStep
  \/ SelectTopStep
  \/ CheckCandidatesStep

SpecSpeculative == InitSpeculative /\ [][NextSpeculative]_vars

-----------------------------------------------------------------------------
(* Two search objects built from the same params and driven by the same     *)
(* calls with the same inputs.  The seed is one that seeds the generator,   *)
(* so both start from the same generator state.  What a call reads outside  *)
(* the store is chosen for each object on its own.                          *)

PairParams ==
  { Params(1, 0, VocabSize - 1, 0, SpeculativePenalty, 0, ids) : ids \in Prompts(1) }

InitPair ==
  /\ \E p \in PairParams : \E g \in SeededStates(p.random_seed) :
        /\ Holds(Constructed(p, g))
        /\ run2 = Constructed(p, g)
  /\ call = NoCall
  /\ NoBeam

\* The two objects have produced the same tokens
Agree == run2.next_tokens_ = next_tokens_ /\ run2.sequences_ = sequences_

\* The next call is made while the two agree
PairUsable == Usable(Cur) /\ Usable(run2) /\ Agree

PairSetLogitsStep ==
  /\ PairUsable
  /\ \E logits \in [0 .. MaxPairCandidates -> LogitRows(FiniteLogits)] :
       /\ Install(SetLogits(Cur, logits))
       /\ run2' = SetLogits(run2, logits)
  /\ call' = [op |-> "SetLogits"]
  /\ UNCHANGED beam_vars

PairSelectTopStep ==
  /\ PairUsable
  /\ HasRows(Cur, params.batch_size)
  /\ Install(SelectTop(Cur))
  /\ run2' = SelectTop(run2)
  /\ call' = [op |-> "SelectTop"]
  /\ UNCHANGED beam_vars

PairSampleTopPStep ==
  /\ PairUsable
  /\ HasRows(Cur, params.batch_size)
  /\ \A r \in SoftMaxedRows(Cur, TRUE) : CanSoftMax(next_token_scores_[r])
  /\ \A r \in SoftMaxedRows(run2, TRUE) : CanSoftMax(run2.next_token_scores_[r])
  /\ \E p \in TopPValues : \E temperature \in Temperatures :
       /\ Install(SampleTopP(Cur, p, temperature))
       /\ run2' = SampleTopP(run2, p, temperature)
  /\ call' = [op |-> "SampleTopP"]
  /\ UNCHANGED beam_vars

PairCheckCandidatesStep ==
  /\ PairUsable
  /\ \E candidate_length \in 0 .. MaxPairCandidates :
       \E draft \in [1 .. candidate_length -> Tokens] :
         \E oob \in BehindStore(params, candidate_length) :
           \E oob2 \in BehindStore(params, candidate_length) :
           /\ HasRows(Cur, candidate_length + 1)
           /\ Shapeable(Cur, candidate_length + 1)
           /\ Shapeable(run2, candidate_length + 1)
           /\ Install(CheckCandidates(Cur, current_length_, draft, oob))
           /\ run2' = CheckCandidates(run2, run2.current_length_, draft, oob2)
           /\ call' = [op |-> "CheckCandidates", threw |-> FALSE]
  /\ UNCHANGED beam_vars

NextPair ==
  \/ PairSetLogitsStep
  \/ PairSelectTopStep
  \/ PairSampleTopPStep
  \/ PairCheckCandidatesStep

SpecPair == InitPair /\ [][NextPair]_vars

-----------------------------------------------------------------------------
(* The seeding of gen_: two search objects constructed from the same params, *)
(* for seeds on both sides of 0.  call records whether the constructor took  *)
(* the std::random_device branch.                                            *)

SeedValues == {0 - 2, 0 - 1, 0, 1}

SeedParams ==
  { Params(1, 0, VocabSize - 1, 0, 1, seed, [r \in {0} |-> <<>>]) : seed \in SeedValues }

InitSeed ==
  /\ \E p \in SeedParams :
       \E g \in SeededStates(p.random_seed) : \E g2 \in SeededStates(p.random_seed) :
         /\ Holds(Constructed(p, g))
         /\ run2 = Constructed(p, g2)
         /\ call = [op |-> "constructed",
                    random_device |-> ~SeedsFromParams(p.random_seed)]
  /\ NoBeam

NextSeed ==
  \/ PairSetLogitsStep
  \/ PairSelectTopStep
  \/ PairSampleTopPStep

SpecSeed == InitSeed /\ [][NextSeed]_vars

-----------------------------------------------------------------------------
(* The repetition penalty of Search_Cpu over batches of 1 .. MaxBatch rows:  *)
(* penalties 1 and SpeculativePenalty, logits on both sides of 0, histories  *)
(* grown by SetNextTokens so that an id occurs more than once in a row.      *)

PenaltyLogits == {0 - 1, 0, 2}

PenaltyParams ==
  UNION { { Params(b, 0, VocabSize - 1, 0, penalty, 0, ids) :
              ids \in Prompts(b), penalty \in {1, SpeculativePenalty} } :
            b \in 1 .. MaxBatch }

InitPenalty == InitWith(PenaltyParams)

\* Buffers of two rows with two different scores each: for a batch of one
\* the second row is a logit position beyond the batch
SetPenaltyLogitsStep ==
  /\ Usable(Cur)
  /\ \E logits \in [0 .. 1 -> { row \in LogitRows(PenaltyLogits) : row.at[0] # row.at[1] }] :
       Install(SetLogits(Cur, logits))
  /\ call' = [op |-> "SetLogits"]
  /\ UNCHANGED <<run2, beam_vars>>

NextPenalty ==
  \/ SetPenaltyLogitsStep
  \/ ApplyRepetitionPenaltyStep
  \/ SetNextTokensStep

SpecPenalty == InitPenalty /\ [][NextPenalty]_vars

-----------------------------------------------------------------------------
(* BeamSearch_Cpu.  The beam scorer (beam_search_scorer.h) is a record      *)
(* built as section 4.4 of the specification describes it, with the length  *)
(* penalty 0, so that a hypothesis is ranked by its cumulative score.       *)
(* A log-probability is a whole number of ln 2; the logits are rows whose   *)
(* sum of exponentials is a power of two.                                   *)

BeamWidth == 2
BeamVocabSize == 3

\* The score a beam other than the first of its batch starts with: far below
\* every score the first beam can reach, so that the beams of a batch do not
\* all start with the same token
BeamFloor == -100

BeamTokens(p) == 0 .. (p.vocab_size - 1)
BeamRows(p) == 0 .. (BatchBeamSize(p) - 1)

\* The search object of a beam search
BeamCur ==
  [ params |-> params,
    sequences_ |-> sequences_,
    current_length_ |-> current_length_,
    next_tokens_ |-> next_tokens_,
    done_ |-> done_,
    next_token_scores_ |-> next_token_scores_,
    finalized_ |-> finalized_,
    beam_scorer_ |-> beam_scorer_ ]

BeamInstall(s) ==
  /\ params' = s.params
  /\ sequences_' = s.sequences_
  /\ current_length_' = s.current_length_
  /\ next_tokens_' = s.next_tokens_
  /\ done_' = s.done_
  /\ next_token_scores_' = s.next_token_scores_
  /\ finalized_' = s.finalized_
  /\ beam_scorer_' = s.beam_scorer_
  /\ UNCHANGED <<eos_seen_, not_done_count_, gen_, next_accepted_tokens_, run2>>

\* The exponent of a power of two
Log2(n) == CHOOSE k \in 0 .. n : Pow2(k) = n

\* The sum of 2^(score - lowest finite score) over a row
ExpSum(at, V) ==
  LET lo == MinOf({ at[t] : t \in { u \in 0 .. (V - 1) : IsFinite(at[u]) } })
  IN SumTo([t \in 0 .. (V - 1) |-> IF IsFinite(at[t]) THEN Pow2(at[t] - lo) ELSE 0], V - 1)

HasWholeLogSum(at, V) ==
  /\ \E t \in 0 .. (V - 1) : IsFinite(at[t])
  /\ \E k \in 0 .. ExpSum(at, V) : Pow2(k) = ExpSum(at, V)

\* LogSoftMax(scores, 1.0): score - log(sum of exp(scores)); -infinity stays
LogSoftMax(at, V) ==
  LET lo == MinOf({ at[t] : t \in { u \in 0 .. (V - 1) : IsFinite(at[u]) } })
  IN [t \in 0 .. (V - 1) |->
        IF IsFinite(at[t]) THEN at[t] - lo - Log2(ExpSum(at, V)) ELSE at[t]]

\* next_token_scores_[offset] += beam_scores[batch_beam_index]
AddBeamScore(score, beam_score) ==
  IF IsFinite(score) THEN score + beam_score ELSE score

\* The scores buffer after the normalisation and the addition of the beam scores
CumulativeScores(s) ==
  [i \in BeamRows(s.params) |->
     [at |-> [t \in BeamTokens(s.params) |->
                AddBeamScore(LogSoftMax(s.next_token_scores_[i].at, s.params.vocab_size)[t],
                             s.beam_scorer_.next_scores[i])],
      softmaxed |-> TRUE,
      penalised |-> s.next_token_scores_[i].penalised]]

\* token_scores_sub[i] of a batch: the block of num_beams * vocab_size scores
TokenScoresSub(scores, p, batch_index, i) ==
  scores[batch_index * p.num_beams + (i \div p.vocab_size)].at[i % p.vocab_size]

BlockSize(p) == p.num_beams * p.vocab_size

\* A candidate list half as long
TopKSingle(p) == p.num_beams

\* top_k = 2 * num_beams
TopK(p) == 2 * p.num_beams

\* token_scores_sub of a batch as a sequence: position i is element i + 1
RECURSIVE BlockFrom(_, _, _, _)
BlockFrom(scores, p, batch_index, i) ==
  IF i < 0 THEN <<>>
  ELSE Append(BlockFrom(scores, p, batch_index, i - 1),
              TokenScoresSub(scores, p, batch_index, i))

\* The pops of the priority queue after those in taken: each pop gives a
\* position of the highest score left; the queue compares scores only, so
\* which of several positions of that score comes first is the heap's matter
RECURSIVE PoppedFrom(_, _, _)
PoppedFrom(block, taken, n) ==
  LET left == { i \in 0 .. (Len(block) - 1) : \A a \in 1 .. Len(taken) : taken[a] # i }
      top == { i \in left : \A j \in left : block[j + 1] <= block[i + 1] }
  IN IF Len(taken) = n \/ left = {}
     THEN {taken}
     ELSE UNION { PoppedFrom(block, Append(taken, i), n) : i \in top }

\* What top_k pops can yield for one batch
PoppedOrders(scores, p, batch_index) ==
  PoppedFrom(BlockFrom(scores, p, batch_index, BlockSize(p) - 1), <<>>, TopK(p))

\* What they can yield for the batches 0 .. batch_index
RECURSIVE PoppedUpTo(_, _, _)
PoppedUpTo(scores, p, batch_index) ==
  IF batch_index < 0 THEN { <<>> }
  ELSE { Append(f, q) : f \in PoppedUpTo(scores, p, batch_index - 1),
                        q \in PoppedOrders(scores, p, batch_index) }

\* next_indices_sub, next_tokens_sub, next_scores_sub of one batch
Decoded(scores, p, batch_index, popped) ==
  [ next_indices |-> [i \in 1 .. Len(popped) |-> popped[i] \div p.vocab_size],
    next_tokens |-> [i \in 1 .. Len(popped) |-> popped[i] % p.vocab_size],
    next_scores |-> [i \in 1 .. Len(popped) |->
                       TokenScoresSub(scores, p, batch_index, popped[i])] ]

\* The hypotheses of a batch, best first, with one more; only the
\* num_beams best are kept
InsertHyp(heap, hyp, K) ==
  LET better == { k \in 1 .. Len(heap) : heap[k].score >= hyp.score }
      at == Cardinality(better)
      all == SubSeq(heap, 1, at) \o <<hyp>> \o SubSeq(heap, at + 1, Len(heap))
  IN IF Len(all) <= K THEN all ELSE SubSeq(all, 1, K)

\* Process, step 3, for one batch: the candidates in the order received; an
\* EOS candidate goes to the completed hypotheses, another becomes a live
\* beam until num_beams live beams are filled
RECURSIVE ProcessFrom(_, _, _, _, _, _)
ProcessFrom(s, batch_index, d, i, heap, live) ==
  LET p == s.params
      row == batch_index * p.num_beams + d.next_indices[i]
  IN IF i > Len(d.next_tokens) \/ Len(live) = p.num_beams
     THEN [heap |-> heap, live |-> live]
     ELSE IF d.next_tokens[i] = p.eos_token_id
          THEN ProcessFrom(s, batch_index, d, i + 1,
                 InsertHyp(heap, [sequence |-> Append(s.sequences_[row], p.eos_token_id),
                                  score |-> d.next_scores[i]], p.num_beams),
                 live)
          ELSE ProcessFrom(s, batch_index, d, i + 1, heap,
                 Append(live, [score |-> d.next_scores[i],
                               token |-> d.next_tokens[i],
                               index |-> row]))

\* Step 5: the batch has num_beams completed hypotheses and the worst of them
\* exceeds the best live score
BatchDone(heap, live, K) ==
  /\ Len(heap) = K
  /\ \A j \in 1 .. Len(live) : heap[K].score > live[j].score

\* Process(sequences, next_scores, next_tokens, next_indices): steps 3 to 5.
\* A batch that is done is left alone and its rows get the pad token.
ScorerProcess(s, received) ==
  LET p == s.params
      K == p.num_beams
      sc == s.beam_scorer_
      out == [b \in Rows(p) |-> ProcessFrom(s, b, received[b], 1, sc.hyps[b], <<>>)]
      live(r) == out[r \div K].live[(r % K) + 1]
      skip(r) == sc.done[r \div K] \/ Len(out[r \div K].live) < K
  IN [sc EXCEPT
        !.received = received,
        !.hyps = [b \in Rows(p) |-> IF sc.done[b] THEN @[b] ELSE out[b].heap],
        !.next_scores = [r \in BeamRows(p) |-> IF skip(r) THEN @[r] ELSE live(r).score],
        !.next_tokens = [r \in BeamRows(p) |-> IF skip(r) THEN p.pad_token_id ELSE live(r).token],
        !.next_indices = [r \in BeamRows(p) |-> IF skip(r) THEN r ELSE live(r).index],
        !.done = [b \in Rows(p) |-> @[b] \/ BatchDone(out[b].heap, out[b].live, K)]]

\* beam_scorer_->IsDone(): every batch is done
ScorerIsDone(sc, p) == \A b \in Rows(p) : sc.done[b]

\* The completed hypotheses of a batch topped up with its live beams
RECURSIVE ToppedUp(_, _, _, _)
ToppedUp(s, batch_index, j, heap) ==
  LET K == s.params.num_beams
      row == batch_index * K + j
  IN IF j >= K THEN heap
     ELSE ToppedUp(s, batch_index, j + 1,
            InsertHyp(heap, [sequence |-> s.sequences_[row],
                             score |-> s.beam_scorer_.next_scores[row]], K))

\* beam_scorer_->Finalize(sequences, num_return_sequences): every batch that
\* is not done is topped up with its live beams; the best
\* num_return_sequences are what GetBeamHypotheses gives from then on
ScorerFinalize(s, num_return_sequences) ==
  LET p == s.params
      sc == s.beam_scorer_
      full == [b \in Rows(p) |-> IF sc.done[b] THEN sc.hyps[b]
                                 ELSE ToppedUp(s, b, 0, sc.hyps[b])]
  IN [sc EXCEPT
        !.hyps = full,
        !.emitted = [b \in Rows(p) |->
                       SubSeq(full[b], 1, IF Len(full[b]) < num_return_sequences
                                          THEN Len(full[b]) ELSE num_return_sequences)],
        !.finalize_calls = @ + 1]

\* The scorer of a new beam search
NewScorer(p) ==
  [ next_scores |-> [r \in BeamRows(p) |-> IF r % p.num_beams = 0 THEN 0 ELSE BeamFloor],
    next_tokens |-> [r \in BeamRows(p) |-> 0],
    next_indices |-> [r \in BeamRows(p) |-> r],
    hyps |-> [b \in Rows(p) |-> <<>>],
    done |-> [b \in Rows(p) |-> FALSE],
    emitted |-> [b \in Rows(p) |-> <<>>],
    received |-> <<>>,
    finalize_calls |-> 0 ]

\* append_beam(next_indices, next_tokens): row r becomes row next_indices[r]
\* followed by next_tokens[r]
SequencesAppendBeam(s, next_indices, next_tokens) ==
  IF s.current_length_ >= s.params.max_length
  THEN s
  ELSE [s EXCEPT !.sequences_ = [r \in BeamRows(s.params) |->
                                   Append(s.sequences_[next_indices[r]], next_tokens[r])],
                 !.current_length_ = @ + 1]

BeamIsDone(s) ==
  \/ ScorerIsDone(s.beam_scorer_, s.params)
  \/ s.current_length_ = s.params.max_length

BeamAppendNextTokensToSequences(s) ==
  LET a == SequencesAppendBeam(s, s.beam_scorer_.next_indices, s.beam_scorer_.next_tokens)
  IN IF a.current_length_ = a.params.max_length
     THEN [a EXCEPT !.done_ = TRUE]
     ELSE a

\* BeamSearch_Cpu::SelectTop; popped[b] is the order in which the priority
\* queue of batch b gives its top_k entries
BeamSelectTop(s, popped) ==
  LET p == s.params
      scores == CumulativeScores(s)
      received == [b \in Rows(p) |-> Decoded(scores, p, b, popped[b])]
      w == [s EXCEPT !.next_token_scores_ = scores]
      sc == ScorerProcess(w, received)
      x == [w EXCEPT !.beam_scorer_ = sc, !.next_tokens_ = sc.next_tokens]
  IN BeamAppendNextTokensToSequences(x)

Finalize(s, num_return_sequences) ==
  IF s.finalized_ THEN s
  ELSE [s EXCEPT !.beam_scorer_ = ScorerFinalize(s, num_return_sequences),
                 !.finalized_ = TRUE]

\* GetSequence(index) and GetSequence(batch_id, beam_id): the search object
\* after the call ...
GetSequence(s, batch_id, beam_id) == Finalize(s, s.params.num_return_sequences)

\* ... and the hypothesis returned; a beam_id with no hypothesis reads
\* outside the hypotheses of the batch
GetHypothesis(s, batch_id, beam_id) ==
  LET emitted == GetSequence(s, batch_id, beam_id).beam_scorer_.emitted[batch_id]
  IN IF beam_id < Len(emitted) THEN emitted[beam_id + 1].sequence ELSE <<>>

\* GeneratorParams of a beam search; the prompt of a batch of b rows has b
\* tokens
BeamParamsOf(batch_size) ==
  [ batch_size |-> batch_size,
    num_beams |-> BeamWidth,
    num_return_sequences |-> BeamWidth,
    vocab_size |-> BeamVocabSize,
    max_length |-> MaxLength,
    min_length |-> 0,
    eos_token_id |-> BeamVocabSize - 1,
    pad_token_id |-> 0,
    repetition_penalty |-> 1,
    random_seed |-> 0,
    input_ids |-> [r \in 0 .. (batch_size * BeamWidth - 1) |-> [k \in 1 .. batch_size |-> 0]] ]

BeamParams == { BeamParamsOf(b) : b \in 1 .. MaxBatch }

\* BeamSearch_Cpu(params): the prompt of a batch row in each row of its beams
BeamConstructed(p) ==
  [ params |-> p,
    sequences_ |-> p.input_ids,
    current_length_ |-> Len(p.input_ids[0]),
    next_tokens_ |-> [r \in BeamRows(p) |-> 0],
    done_ |-> FALSE,
    next_token_scores_ |-> <<>>,
    finalized_ |-> FALSE,
    beam_scorer_ |-> NewScorer(p) ]

\* The logits of a row: scores whose sum of exponentials is a power of two,
\* the lowest finite one 0, at most one token masked
BeamLogitValues == {0, 1, NegInf}

BeamLogitRows ==
  { row \in [0 .. (BeamVocabSize - 1) -> BeamLogitValues] :
      /\ HasWholeLogSum(row, BeamVocabSize)
      /\ \E t \in 0 .. (BeamVocabSize - 1) : row[t] = 0
      /\ Cardinality({ t \in 0 .. (BeamVocabSize - 1) : row[t] = NegInf }) <= 1 }

\* The logits of a step: the beams of a batch row get the same rows in a
\* batch of more than one row
BeamLogits(p) ==
  IF p.batch_size = 1
  THEN [BeamRows(p) -> BeamLogitRows]
  ELSE { [r \in BeamRows(p) |-> f[r \div p.num_beams]] : f \in [Rows(p) -> BeamLogitRows] }

InitBeam ==
  /\ \E p \in BeamParams :
       /\ params = p
       /\ sequences_ = BeamConstructed(p).sequences_
       /\ current_length_ = BeamConstructed(p).current_length_
       /\ next_tokens_ = BeamConstructed(p).next_tokens_
       /\ done_ = FALSE
       /\ next_token_scores_ = <<>>
       /\ finalized_ = FALSE
       /\ beam_scorer_ = NewScorer(p)
       /\ eos_seen_ = [r \in BeamRows(p) |-> FALSE]
       /\ not_done_count_ = p.batch_size
  /\ gen_ = 0
  /\ next_accepted_tokens_ = [start |-> 0, count |-> 0]
  /\ call = NoCall
  /\ run2 = NoCall

\* One step of the generation loop: SetLogits, then SelectTop
BeamStep ==
  /\ ~BeamIsDone(BeamCur)
  /\ \E logits \in BeamLogits(params) :
       LET rows == [r \in BeamRows(params) |->
                      [at |-> logits[r], softmaxed |-> FALSE, penalised |-> FALSE]]
           s == SetLogits(BeamCur, rows)
       IN \E order \in PoppedUpTo(CumulativeScores(s), params, params.batch_size - 1) :
            LET popped == [b \in Rows(params) |-> order[b + 1]]
            IN
            /\ BeamInstall(BeamSelectTop(s, popped))
            /\ call' = [op |-> "BeamSelectTop", logits |-> logits,
                        beam_scores |-> beam_scorer_.next_scores]

FinalizeStep ==
  /\ BeamInstall(Finalize(BeamCur, params.num_return_sequences))
  /\ call' = [op |-> "Finalize", was_done |-> BeamIsDone(BeamCur)]

GetSequenceStep ==
  /\ \E batch_id \in Rows(params) : \E beam_id \in 0 .. (params.num_return_sequences - 1) :
       /\ BeamInstall(GetSequence(BeamCur, batch_id, beam_id))
       /\ call' = [op |-> "GetSequence", was_done |-> BeamIsDone(BeamCur),
                   batch_id |-> batch_id, beam_id |-> beam_id,
                   hypothesis |-> GetHypothesis(BeamCur, batch_id, beam_id)]

NextBeam == BeamStep \/ FinalizeStep \/ GetSequenceStep

SpecBeam == InitBeam /\ [][NextBeam]_vars

-----------------------------------------------------------------------------
(* The sort and the walk of SampleTopP on a row of given probabilities and  *)
(* a given drawn threshold, both in hundredths.  The row and the threshold  *)
(* are held in call; the search object stays as constructed.                *)

\* indices of 0 .. n-1 sorted by descending score, as SortDesc
SortDescOver(at, n) ==
  [i \in 1 .. n |->
     CHOOSE t \in 0 .. (n - 1) :
       Cardinality({ u \in 0 .. (n - 1) : Before(at, u, t) }) = i - 1]

\* The token SampleTopP hands to SetNextToken for a row of n probabilities
TopPToken(probs, n, threshold) ==
  Walk(probs, SortDescOver(probs, n), n, 0, threshold, 0)

\* The probabilities 0.5, 0.3, 0.1, 0.07, 0.03
ExampleValues == <<50, 30, 10, 7, 3>>
ExampleProbs == [i \in 0 .. (Len(ExampleValues) - 1) |-> ExampleValues[i + 1]]

\* The rows that hold these probabilities in some order
ExampleRows ==
  { f \in [DOMAIN ExampleProbs -> { ExampleValues[i] : i \in DOMAIN ExampleValues }] :
      \A a, b \in DOMAIN ExampleProbs : a # b => f[a] # f[b] }

\* The draws of std::uniform_real_distribution<float>(0, 0.4)
ExampleThresholds == 0 .. 39

InitTopP ==
  /\ \E p \in { q \in GreedyParams : q.batch_size = 1 /\ q.input_ids[0] = <<>> } :
       Holds(Constructed(p, Seeded(p.random_seed)))
  /\ \E probs \in ExampleRows : \E threshold \in ExampleThresholds :
       call = [op |-> "TopPInput", probs |-> probs, threshold |-> threshold]
  /\ run2 = NoCall
  /\ NoBeam

TopPWalkStep ==
  /\ call.op = "TopPInput"
  /\ call' = [ op |-> "TopPWalk",
               probs |-> call.probs,
               threshold |-> call.threshold,
               token |-> TopPToken(call.probs, Len(ExampleValues), call.threshold) ]
  /\ UNCHANGED <<params, sequences_, current_length_, next_tokens_, eos_seen_,
                 not_done_count_, done_, next_token_scores_, gen_,
                 next_accepted_tokens_, run2, beam_vars>>

NextTopP == TopPWalkStep

SpecTopP == InitTopP /\ [][NextTopP]_vars

-----------------------------------------------------------------------------
(* A greedy generation: while the search is not done, the model's logits    *)
(* are set and SelectTop is called.  call.steps counts the steps taken.     *)

AnyLogits == FiniteLogits \cup {NegInf}

StepsTaken == IF call.op = "GenerateStep" THEN call.steps ELSE 0

GenerateStep ==
  /\ ~done_
  /\ \E logits \in [Rows(params) -> LogitRows(AnyLogits)] :
       Install(SelectTop(SetLogits(Cur, logits)))
  /\ call' = [op |-> "GenerateStep", steps |-> StepsTaken + 1]
  /\ UNCHANGED <<run2, beam_vars>>

InitGreedy == InitWith(GreedyParams)

NextGreedy == GenerateStep

SpecGreedy == InitGreedy /\ [][NextGreedy]_vars

-----------------------------------------------------------------------------
(* Properties of the EOS bookkeeping, of the length and of the calls *)

\* The calls that write next_tokens_
WritesNextTokens(c) ==
  \/ c.op \in {"SelectTop", "SampleTopK", "SampleTopP", "SampleTopKTopP"}
  \/ c.op = "SetNextTokens" /\ c.count > 0

\* C1: once row r has emitted EOS (eos_seen[r] is true), the token any later
\* selection call (SelectTop, SampleTopK, SampleTopP, SampleTopKTopP,
\* SetNextTokens) writes for row r is pad_token_id.
C1_PadAfterEos ==
  [][ \A r \in Rows(params) :
        (eos_seen_[r] /\ WritesNextTokens(call')) =>
          next_tokens_'[r] = params.pad_token_id ]_vars

\* C2: without rollback not_done_count_ is decremented once per row, at the
\* row's first EOS, so it is the number of rows that have not emitted EOS and
\* reaches zero only when every row has.
C2_OneDecrementPerRow ==
  /\ not_done_count_ =
       params.batch_size - Cardinality({ r \in Rows(params) : eos_seen_[r] })
  /\ not_done_count_ = 0 => \A r \in Rows(params) : eos_seen_[r]

\* C3: in every reachable state done_ is true exactly when every row has
\* eos_seen set or the length equals max_length.
C3_DoneIffAllEosOrFull ==
  done_ <=> ( (\A r \in Rows(params) : eos_seen_[r])
              \/ current_length_ = params.max_length )

\* C4: the length stays within 0 .. max_length under every call.
C4_LengthInRange ==
  0 <= current_length_ /\ current_length_ <= params.max_length

\* The model's argmax token at a logit position
ModelArgMax(i) == ArgMax(next_token_scores_[i].at)

\* The length of the longest prefix of the draft that equals the model's
\* argmax tokens position by position
LongestMatch(draft) ==
  MaxOf({ m \in 0 .. Len(draft) : \A i \in 0 .. (m - 1) : draft[i + 1] = ModelArgMax(i) })

\* What C5 says of a CheckCandidates that returned: count is A, start the
\* stored length at the call
AcceptedAsClaimed ==
  LET C == Len(call.draft)
      A == next_accepted_tokens_.count
      start == next_accepted_tokens_.start
  IN /\ 1 <= A /\ A <= C + 1
     /\ current_length_ = start + A
     /\ A - 1 <= LongestMatch(call.draft)
     /\ A - 1 < LongestMatch(call.draft) => done_
     /\ \A i \in 1 .. (A - 1) : sequences_[0][start + i] = call.draft[i]
     /\ sequences_[0][start + A] = ModelArgMax(A - 1)
     /\ GetNextAcceptedTokens(Cur) = SubSeq(sequences_[0], start + 1, start + A)
     /\ call.reads \subseteq 0 .. (C - 1)

\* C5 as stated: every CheckCandidates with a draft of C tokens returns A
\* accepted tokens, 1 <= A <= C + 1, A - 1 the longest matching prefix of the
\* draft (cut short by done_), the draft prefix then the model's argmax, the
\* stored sequence grown by exactly A, no draft position >= C read.
C5_AcceptedAsClaimedAlways ==
  (call.op = "CheckCandidates" /\ ~call.threw) => AcceptedAsClaimed

\* C5, amended: the same, for a CheckCandidates called while the stored length
\* is below max_length.
C5_AcceptedBelowMaxLength ==
  ( /\ call.op = "CheckCandidates"
    /\ ~call.threw
    /\ next_accepted_tokens_.start < params.max_length ) => AcceptedAsClaimed

\* A draft of two tokens, the first accepted and the second replaced, the
\* generation not done
C5_Witness ==
  /\ call.op = "CheckCandidates"
  /\ ~call.threw
  /\ Len(call.draft) = 2
  /\ next_accepted_tokens_.count = 2
  /\ next_accepted_tokens_.start < params.max_length
  /\ ~done_

\* C6: CheckCandidates on a search whose batch_size is not 1 fails with an
\* error and leaves the sequences, their length, next_tokens, eos_seen,
\* not_done_count_, done_ and the logits buffer unchanged.
C6_BatchSizeRejected ==
  [][ (call'.op = "CheckCandidates" /\ params.batch_size # 1) =>
        /\ call'.threw
        /\ UNCHANGED <<sequences_, current_length_, next_tokens_, eos_seen_,
                       not_done_count_, done_, next_token_scores_>> ]_vars

\* A batch of two rows, some tokens appended, some row past EOS, and the last
\* call a CheckCandidates that threw
C6_Witness ==
  /\ call.op = "CheckCandidates"
  /\ call.threw
  /\ params.batch_size = 2
  /\ current_length_ > Len(params.input_ids[0])
  /\ \E r \in Rows(params) : eos_seen_[r]
  /\ NumRows(next_token_scores_) > 0

\* C7: at every logit position CheckCandidates processes, the repetition
\* penalty rescales exactly the ids of row 0's current sequence (the verified
\* prefix and the tokens accepted so far) and reads no row but row 0.
C7_PenaltyReadsRowZero ==
  (call.op = "CheckCandidates" /\ ~call.threw /\ params.repetition_penalty # 1) =>
    \A i \in 1 .. Len(call.ids) :
      /\ PenaltySequenceRow(i - 1) = 0
      /\ call.ids[i] =
           TokensIn(SubSeq(sequences_[0], 1, next_accepted_tokens_.start + i - 1))

\* C8: while the length is below min_length, ApplyMinLength followed by
\* SelectTop, and every position of CheckCandidates, emits no eos_token_id.
C8_NoEosBelowMinLength ==
  [][ /\ ( /\ call.op = "ApplyMinLength"
           /\ call'.op = "SelectTop"
           /\ current_length_ < params.min_length ) =>
          \A r \in Rows(params) : next_tokens_'[r] # params.eos_token_id
      /\ ( call'.op = "CheckCandidates" /\ ~call'.threw ) =>
          \A j \in (current_length_ + 1) .. current_length_' :
            j - 1 < params.min_length => sequences_'[0][j] # params.eos_token_id ]_vars

\* The last num_tokens tokens of every row
LastTokens(s, num_tokens) ==
  [r \in Rows(s.params) |->
     SubSeq(s.sequences_[r], s.current_length_ - num_tokens + 1, s.current_length_)]

\* The search object after DropLastTokens(n) and SetNextTokens of the n dropped
\* tokens of every row
DroppedAndAppended(s, n) ==
  SetNextTokens(DropLastTokens(s, n, [r \in Rows(s.params) |-> <<>>]), LastTokens(s, n), n)

\* C9: DropLastTokens(n) followed by SetNextTokens of the n dropped tokens
\* restores the length, every row's content, eos_seen, not_done_count_ and
\* done_, from every reachable state and for every n up to the length.
C9_DropThenAppendRestores ==
  \A n \in 0 .. current_length_ :
    LET back == DroppedAndAppended(Cur, n)
    IN /\ back.current_length_ = current_length_
       /\ back.sequences_ = sequences_
       /\ back.eos_seen_ = eos_seen_
       /\ back.not_done_count_ = not_done_count_
       /\ back.done_ = done_

\* C10: two runs with the same params, the same logits and drafts and the
\* same calls produce the same next tokens and the same sequences.
C10_RunsAgree == Agree

\* The length the generation started with
StartLength == Len(params.input_ids[0])

\* C11: a greedy generation of SelectTop steps started below max_length is
\* done after at most max_length - l0 steps, and each step appends exactly
\* one token to every row.
C11_DoneWithinMaxLength ==
  /\ StepsTaken <= params.max_length - StartLength
  /\ StepsTaken = params.max_length - StartLength => done_
  /\ current_length_ = StartLength + StepsTaken
  /\ \A r \in Rows(params) :
       /\ Len(sequences_[r]) = StartLength + StepsTaken
       /\ SubSeq(sequences_[r], 1, StartLength) = params.input_ids[r]
       /\ StepsTaken > 0 => sequences_[r][current_length_] = next_tokens_[r]

\* Two rows, an empty prompt, max_length steps taken, no row at EOS
C11_Witness ==
  /\ params.batch_size = 2
  /\ StartLength = 0
  /\ StepsTaken = params.max_length
  /\ done_
  /\ \A r \in Rows(params) : ~eos_seen_[r]

\* C12: for every row that had not seen EOS, SelectTop writes the index of a
\* maximum score of the row, the lowest index among those that share it.
C12_LowestIndexOfMaximum ==
  [][ call'.op = "GenerateStep" =>
        \A r \in Rows(params) :
          ~eos_seen_[r] =>
            LET at == next_token_scores_'[r].at
                token == next_tokens_'[r]
            IN /\ \A u \in Tokens : at[u] <= at[token]
               /\ \A u \in Tokens : u < token => at[u] < at[token] ]_vars

\* The first step of two rows, row 0 with two equal finite scores and row 1
\* with its maximum at the last index
C12_Witness ==
  /\ StepsTaken = 1
  /\ params.batch_size = 2
  /\ next_token_scores_[0].at[0] = next_token_scores_[0].at[1]
  /\ IsFinite(next_token_scores_[0].at[0])
  /\ next_tokens_[0] = 0
  /\ next_tokens_[1] = VocabSize - 1

\* The token the walk returned for the example row and a threshold
WalkedExample(threshold, token) ==
  ( /\ call.op = "TopPWalk"
    /\ call.probs = ExampleProbs
    /\ call.threshold = threshold ) => call.token = token

\* C13 as stated: with probabilities [0.5, 0.3, 0.1, 0.07, 0.03] and p = 0.4
\* the walk returns index 0 for threshold 0.2, index 1 for 0.35 and index 1
\* for 0.39.
C13_ExampleAsStated ==
  WalkedExample(20, 0) /\ WalkedExample(35, 1) /\ WalkedExample(39, 1)

\* C13, amended: the walk returns index 0 for each of the thresholds 0.2,
\* 0.35 and 0.39 (every threshold below p = 0.4 is used up by the first
\* probability 0.5).
C13_ExampleFirstIndex ==
  /\ WalkedExample(20, 0) /\ WalkedExample(35, 0) /\ WalkedExample(39, 0)
  /\ \A threshold \in ExampleThresholds : WalkedExample(threshold, 0)

\* The example row walked with threshold 0.35
C13_Witness ==
  /\ call.op = "TopPWalk"
  /\ call.probs = ExampleProbs
  /\ call.threshold = 35
  /\ call.token = 0

\* The tokens of row r that a drop of n tokens removes
SuffixOfRow(r, n) ==
  IF n <= Len(sequences_[r])
  THEN SubSeq(sequences_[r], Len(sequences_[r]) - n + 1, Len(sequences_[r]))
  ELSE sequences_[r]

\* The rows a drop of n tokens is to bring back: EOS seen and EOS dropped
RowsBroughtBack(n) ==
  { r \in Rows(params) :
      eos_seen_[r] /\ Occurrences(SuffixOfRow(r, n), params.eos_token_id) > 0 }

\* C15: DropLastTokens(n) takes n off the length; a row with eos_seen set
\* whose dropped tokens contain EOS has eos_seen cleared, clears done_ and
\* adds one to not_done_count_ for each EOS among its dropped tokens; every
\* other row keeps its eos_seen and adds nothing.
C15_DropRevertsPerOccurrence ==
  [][ call'.op = "DropLastTokens" =>
        LET n == call'.num_tokens
            back == RowsBroughtBack(n)
            added == [r \in Rows(params) |->
                        IF r \in back
                        THEN Occurrences(SuffixOfRow(r, n), params.eos_token_id)
                        ELSE 0]
        IN /\ current_length_' = current_length_ - n
           /\ \A r \in Rows(params) :
                eos_seen_'[r] = (IF r \in back THEN FALSE ELSE eos_seen_[r])
           /\ back # {} => ~done_'
           /\ not_done_count_' = not_done_count_ + SumTo(added, params.batch_size - 1) ]_vars

\* C16: in every state reached by selection, SetNextTokens, CheckCandidates
\* and DropLastTokens calls, not_done_count_ lies in 0 .. batch_size and is
\* the number of rows whose eos_seen is false.
C16_CountsRowsWithoutEos ==
  /\ 0 <= not_done_count_
  /\ not_done_count_ <= params.batch_size
  /\ not_done_count_ = Cardinality({ r \in Rows(params) : ~eos_seen_[r] })

\* The generator after n draws
RECURSIVE Advanced(_, _)
Advanced(g, n) == IF n = 0 THEN g ELSE Advanced(RngAdvance(g), n - 1)

\* The k token ids of highest probability, best first
Ranked(probs, k) == [i \in 0 .. (k - 1) |-> SortDesc(probs)[i + 1]]

\* Each ranked candidate weighted by its own probability
OwnWeights(probs, k) == [i \in 0 .. (k - 1) |-> probs[Ranked(probs, k)[i]]]

\* C17: SampleTopK(k) gives each row one of its k tokens of highest
\* probability, the i-th ranked of them drawn with its own probability as
\* weight: the token is the ranked candidate that the draw selects under
\* the weights probs[indices[0]], ..., probs[indices[k-1]].
C17_TopKWeightedByOwnProbability ==
  [][ call'.op = "SampleTopK" =>
        \A r \in Rows(params) :
          LET k == call'.k
              probs == SoftMaxRow(Cur, r, call'.temperature).next_token_scores_[r].at
              own == OwnWeights(probs, k)
          IN /\ \E i \in 0 .. (k - 1) : next_tokens_'[r] = Ranked(probs, k)[i]
             /\ next_tokens_'[r] = Ranked(probs, k)[Discrete(own, k, Advanced(gen_, r))] ]_vars

-----------------------------------------------------------------------------
(* Properties of the beam search *)

\* The scorer's finalization ran in this step
ScorerFinalized == beam_scorer_'.finalize_calls > beam_scorer_.finalize_calls

\* C14: over any sequence of Finalize and GetSequence calls the scorer's
\* finalization runs at most once, and it runs only in a call made when
\* IsDone is true; a GetSequence made before that does not run it.
C14_FinalizeOnceWhenDone ==
  [][ /\ beam_scorer_'.finalize_calls <= 1
      /\ ScorerFinalized => BeamIsDone(BeamCur) ]_vars

\* lp is the log-softmax of row: the finite scores are shifted by one
\* amount, the others stay, and the exponentials of lp sum to 1
IsLogSoftMaxOf(lp, row, V) ==
  LET finite == { t \in 0 .. (V - 1) : IsFinite(row[t]) }
      shift == 0 - MinOf({ lp[t] : t \in finite })
  IN /\ \A t \in (0 .. (V - 1)) \ finite : lp[t] = row[t]
     /\ \A t, u \in finite : lp[t] - lp[u] = row[t] - row[u]
     /\ SumTo([t \in 0 .. (V - 1) |-> IF t \in finite THEN Pow2(lp[t] + shift) ELSE 0],
              V - 1) = Pow2(shift)

\* The scores buffer after the call holds, in row j, the log-softmax of the
\* logits of row j plus the running beam score of row j
BufferIsCumulative ==
  \A j \in BeamRows(params) :
    LET V == params.vocab_size
        lp == [t \in 0 .. (V - 1) |->
                 IF IsFinite(next_token_scores_'[j].at[t])
                 THEN next_token_scores_'[j].at[t] - call'.beam_scores[j]
                 ELSE next_token_scores_'[j].at[t]]
    IN IsLogSoftMaxOf(lp, call'.logits[j], V)

\* C18: for every batch b the scorer receives 2 * num_beams candidates, each
\* a position idx of the batch's block of num_beams * vocab_size cumulative
\* scores given as beam idx / vocab_size and token idx % vocab_size with its
\* score, no position twice, in non-increasing order of score, and no
\* position left out scores higher than one received; the cumulative score
\* of (beam j, token t) is the log-softmax of t in row j plus the running
\* beam score of row j.
C18_ScorerGetsTopCandidates ==
  [][ call'.op = "BeamSelectTop" =>
        /\ BufferIsCumulative
        /\ \A b \in Rows(params) :
             LET K == params.num_beams
                 V == params.vocab_size
                 got == beam_scorer_'.received[b]
                 idx(i) == got.next_indices[i] * V + got.next_tokens[i]
                 score(x) == next_token_scores_'[b * K + (x \div V)].at[x % V]
             IN /\ Len(got.next_scores) = 2 * K
                /\ Len(got.next_indices) = 2 * K
                /\ Len(got.next_tokens) = 2 * K
                /\ \A i \in 1 .. (2 * K) :
                     /\ got.next_indices[i] \in 0 .. (K - 1)
                     /\ got.next_tokens[i] \in 0 .. (V - 1)
                     /\ got.next_scores[i] = score(idx(i))
                /\ \A i, k \in 1 .. (2 * K) :
                     i < k => (idx(i) # idx(k) /\ got.next_scores[i] >= got.next_scores[k])
                /\ \A x \in 0 .. (K * V - 1) :
                     (\A i \in 1 .. (2 * K) : idx(i) # x) =>
                       score(x) <= got.next_scores[2 * K] ]_vars

\* A second step of a search of one batch row: the running beam scores are
\* below 0, candidates of both beams are received and two of them tie
C18_Witness ==
  /\ call.op = "BeamSelectTop"
  /\ params.batch_size = 1
  /\ \E j \in BeamRows(params) : call.beam_scores[j] < 0 /\ call.beam_scores[j] > BeamFloor
  /\ \E i, k \in 1 .. 4 :
       /\ beam_scorer_.received[0].next_indices[i] # beam_scorer_.received[0].next_indices[k]
       /\ beam_scorer_.received[0].next_scores[i] = beam_scorer_.received[0].next_scores[k]

\* C19: the candidates of a batch that have equal cumulative scores are
\* received in ascending order of (beam index, token id).
C19_TiesInAscendingOrder ==
  [][ call'.op = "BeamSelectTop" =>
        \A b \in Rows(params) :
          LET got == beam_scorer_'.received[b]
          IN \A i, k \in 1 .. Len(got.next_scores) :
               (i < k /\ got.next_scores[i] = got.next_scores[k]) =>
                 \/ got.next_indices[i] < got.next_indices[k]
                 \/ /\ got.next_indices[i] = got.next_indices[k]
                    /\ got.next_tokens[i] < got.next_tokens[k] ]_vars

-----------------------------------------------------------------------------
(* Properties of the construction *)

\* C20: for every random_seed below 0 the constructor seeds gen_ from the
\* entropy source (std::random_device); for every random_seed from 0 on it
\* seeds gen_ from random_seed, so that two constructions give the same
\* generator.
C20_EntropyBelowZero ==
  call.op = "constructed" =>
    IF params.random_seed < 0
    THEN call.random_device
    ELSE /\ ~call.random_device
         /\ gen_ = Seeded(params.random_seed)
         /\ run2.gen_ = gen_

-----------------------------------------------------------------------------
(* Properties of the logits shaping *)

\* after is what the penalty makes of the score before: before * penalty
\* below 0, before / penalty from 0 on
RescaledOnce(before, after, penalty) ==
  IF before < 0 THEN after = before * penalty ELSE after * penalty = before

\* C21: ApplyRepetitionPenalty(rho) rescales in every row r the scores of
\* the token ids that occur in row r's sequence, each exactly once however
\* often the id occurs, and leaves every other score as it was; with rho = 1
\* the whole buffer is as it was.
C21_PenaltyFrame ==
  [][ call'.op = "ApplyRepetitionPenalty" =>
        LET rho == params.repetition_penalty
        IN /\ rho = 1 => next_token_scores_' = next_token_scores_
           /\ NumRows(next_token_scores_') = NumRows(next_token_scores_)
           /\ \A r \in 0 .. (NumRows(next_token_scores_) - 1) : \A t \in Tokens :
                LET before == next_token_scores_[r].at[t]
                    after == next_token_scores_'[r].at[t]
                IN IF rho # 1 /\ r \in Rows(params)
                      /\ Occurrences(sequences_[r], t) > 0
                   THEN RescaledOnce(before, after, rho)
                   ELSE after = before ]_vars

\* A penalty above 1 applied to a batch of two rows with different
\* histories, an id occurring twice in one of them, scores below and above 0
C21_Witness ==
  /\ call.op = "ApplyRepetitionPenalty"
  /\ params.repetition_penalty # 1
  /\ params.batch_size = 2
  /\ TokensIn(sequences_[0]) # TokensIn(sequences_[1])
  /\ \E r \in Rows(params) : \E t \in Tokens : Occurrences(sequences_[r], t) > 1
  /\ \E r \in Rows(params) : \E t \in TokensIn(sequences_[r]) :
       next_token_scores_[r].at[t] < 0
  /\ \E r \in Rows(params) : \E t \in TokensIn(sequences_[r]) :
       next_token_scores_[r].at[t] > 0

====
